---------------------------- MODULE Spec2Model ----------------------------
(***************************************************************************)
(* A model of the RISC-V assembler (assembler.py) and of the decoder,      *)
(* register file, memory and executors of the simulator (Simulator.py).    *)
(*                                                                         *)
(* Python integers are unbounded.  A Python integer n is represented here  *)
(* by the pair <<hi, lo>> with n = hi * 2^16 + lo and 0 <= lo < 2^16, so   *)
(* that 32-bit patterns such as 0xFFFFF800 and sums beyond 2^31 are exact. *)
(* Register indices, bit widths and shift amounts are plain integers.      *)
(***************************************************************************)
EXTENDS Integers, Sequences, FiniteSets, TLC

Limb == 2^16

\* The pair representing hi * 2^16 + lo for any integer lo.
Norm(hi, lo) == <<hi + (lo \div Limb), lo % Limb>>

\* The pair representing the plain integer n.
ToZ(n) == Norm(0, n)

\* The plain integer a pair represents (used for values known to be small).
Small(a) == a[1] * Limb + a[2]

Zero == ToZ(0)

Add(a, b) == Norm(a[1] + b[1], a[2] + b[2])

Sub(a, b) == Norm(a[1] - b[1], a[2] - b[2])

\* a * k for a small non-negative k.
Mul(a, k) == Norm(a[1] * k, a[2] * k)

Less(a, b) == a[1] < b[1] \/ (a[1] = b[1] /\ a[2] < b[2])

Leq(a, b) == a = b \/ Less(a, b)

\* Python's & on integers in two's complement of unbounded width.
RECURSIVE AndN(_, _)
AndN(x, y) ==
    IF x = 0 \/ y = 0 THEN 0
    ELSE IF x = -1 THEN y
    ELSE IF y = -1 THEN x
    ELSE (x % 2) * (y % 2) + 2 * AndN(x \div 2, y \div 2)

\* Python's | on integers in two's complement of unbounded width.
RECURSIVE OrN(_, _)
OrN(x, y) ==
    IF x = 0 THEN y
    ELSE IF y = 0 THEN x
    ELSE IF x = -1 \/ y = -1 THEN -1
    ELSE (IF x % 2 = 1 \/ y % 2 = 1 THEN 1 ELSE 0) + 2 * OrN(x \div 2, y \div 2)

And(a, b) == <<AndN(a[1], b[1]), AndN(a[2], b[2])>>

Or(a, b) == <<OrN(a[1], b[1]), OrN(a[2], b[2])>>

\* Python's ~a = -a - 1.
Not(a) == <<(-a[1]) - 1, (Limb - 1) - a[2]>>

\* Python's a >> s (floor division by 2^s) for 0 <= s.
RECURSIVE Shr(_, _)
Shr(a, s) ==
    IF s >= 16 THEN Shr(ToZ(a[1]), s - 16)
    ELSE <<a[1] \div (2^s), (a[1] % (2^s)) * (2^(16 - s)) + (a[2] \div (2^s))>>

\* Python's a << s for 0 <= s.
RECURSIVE Shl(_, _)
Shl(a, s) ==
    IF s >= 16 THEN Shl(<<Small(a), 0>>, s - 16)
    ELSE Norm(a[1] * (2^s), a[2] * (2^s))

\* 0xFFFFFFFF and 0x80000000.
Mask32 == <<Limb - 1, Limb - 1>>

Bit31 == <<2^15, 0>>

--------------------------------------------------------------------------
(* Simulator.py: memory *)

\* memory is a dict from address to byte; DOMAIN memory is the set of keys.
init_memory == <<>>

read_byte_memory(memory, addr) ==
    IF addr \notin DOMAIN memory THEN Zero
    ELSE And(memory[addr], ToZ(255))

RECURSIVE ReadBytes(_, _, _, _)
ReadBytes(memory, addr, n, i) ==
    IF i >= n THEN Zero
    ELSE Or(Shl(read_byte_memory(memory, Add(addr, ToZ(i))), i * 8),
            ReadBytes(memory, addr, n, i + 1))

read_word_memory(memory, addr) == ReadBytes(memory, addr, 4, 0)

write_byte_memory(memory, addr, value) ==
    [a \in (DOMAIN memory) \cup {addr} |->
        IF a = addr THEN And(value, ToZ(255)) ELSE memory[a]]

RECURSIVE WriteBytes(_, _, _, _, _)
WriteBytes(memory, addr, value, n, i) ==
    IF i >= n THEN memory
    ELSE WriteBytes(
            write_byte_memory(memory, Add(addr, ToZ(i)),
                              And(Shr(value, i * 8), ToZ(255))),
            addr, value, n, i + 1)

write_word_memory(memory, addr, value) == WriteBytes(memory, addr, value, 4, 0)

--------------------------------------------------------------------------
(* Simulator.py: register file *)

init_registers == [i \in 0..31 |-> IF i = 2 THEN ToZ(380) ELSE Zero]

read_register(values, reg_num) ==
    IF 0 <= reg_num /\ reg_num < 32 THEN values[reg_num] ELSE Zero

\* write_register without the guard that keeps register 0 out.
write_register_any(values, reg_num, value) ==
    IF 0 <= reg_num /\ reg_num < 32
    THEN LET masked == And(value, Mask32)
             signed == IF And(masked, Bit31) # Zero
                       THEN Or(masked, Not(Mask32))
                       ELSE masked
         IN  [values EXCEPT ![reg_num] = signed]
    ELSE values

\* write_register without the sign extension from bit 31.
write_register_unsigned(values, reg_num, value) ==
    IF 1 <= reg_num /\ reg_num < 32
    THEN [values EXCEPT ![reg_num] = And(value, Mask32)]
    ELSE values

write_register(values, reg_num, value) ==
    IF 1 <= reg_num /\ reg_num < 32
    THEN LET masked == And(value, Mask32)
             signed == IF And(masked, Bit31) # Zero
                       THEN Or(masked, Not(Mask32))
                       ELSE masked
         IN  [values EXCEPT ![reg_num] = signed]
    ELSE values

--------------------------------------------------------------------------
(* Text.  A binary string is a sequence of the digits 0 and 1, most         *)
(* significant first.  An operand token is a record: a name (a register, a *)
(* mnemonic or a label), a decimal literal, a 0x literal, or the memory    *)
(* operand offset(base).                                                   *)

NameTok(n) == [kind |-> "name", neg |-> FALSE, digits |-> <<>>, name |-> n]

DecTokOf(isNeg, ds) == [kind |-> "dec", neg |-> isNeg, digits |-> ds, name |-> ""]

HexTokOf(ds) == [kind |-> "hex", neg |-> FALSE, digits |-> ds, name |-> ""]

MemTokOf(isNeg, ds, base) == [kind |-> "mem", neg |-> isNeg, digits |-> ds, name |-> base]

\* Python's f"{v:b}" for v >= 0.
RECURSIVE Digits(_)
Digits(v) == IF v < 2 THEN <<v>> ELSE Digits(v \div 2) \o <<v % 2>>

RECURSIVE Pad(_, _)
Pad(s, w) == IF Len(s) >= w THEN s ELSE Pad(<<0>> \o s, w)

\* Python's f"{v:0{w}b}": at least w digits, more when v needs them.
Bin(v, w) == Pad(Digits(v), w)

BinZ(a, w) == Bin(Small(a), w)

\* The value of the first n digits of ds, for a value below 2^31.
RECURSIVE DigitsValue(_, _, _)
DigitsValue(ds, base, n) ==
    IF n = 0 THEN 0 ELSE DigitsValue(ds, base, n - 1) * base + ds[n]

\* Python's int(digits, base) for a string of digits, taken a group of
\* digits at a time (15 binary digits, 3 digits otherwise).
RECURSIVE ParseDigits(_, _)
ParseDigits(ds, base) ==
    LET group == IF base = 2 THEN 15 ELSE 3
        n     == Len(ds)
    IN  IF n <= group THEN ToZ(DigitsValue(ds, base, n))
        ELSE Add(Mul(ParseDigits(SubSeq(ds, 1, n - group), base), base^group),
                 ToZ(DigitsValue(SubSeq(ds, n - group + 1, n), base, group)))

--------------------------------------------------------------------------
(* assembler.py *)

REGISTERS ==
    [zero |-> 0, ra |-> 1, sp |-> 2, gp |-> 3, tp |-> 4, t0 |-> 5, t1 |-> 6,
     t2 |-> 7, s0 |-> 8, fp |-> 8, s1 |-> 9, a0 |-> 10, a1 |-> 11, a2 |-> 12,
     a3 |-> 13, a4 |-> 14, a5 |-> 15, a6 |-> 16, a7 |-> 17, s2 |-> 18,
     s3 |-> 19, s4 |-> 20, s5 |-> 21, s6 |-> 22, s7 |-> 23, s8 |-> 24,
     s9 |-> 25, s10 |-> 26, s11 |-> 27, t3 |-> 28, t4 |-> 29, t5 |-> 30,
     t6 |-> 31]

\* The tokens 'x' followed by digits whose value is in 0..31.
XREGS ==
    [x0 |-> 0, x1 |-> 1, x2 |-> 2, x3 |-> 3, x4 |-> 4, x5 |-> 5, x6 |-> 6,
     x7 |-> 7, x8 |-> 8, x9 |-> 9, x10 |-> 10, x11 |-> 11, x12 |-> 12,
     x13 |-> 13, x14 |-> 14, x15 |-> 15, x16 |-> 16, x17 |-> 17, x18 |-> 18,
     x19 |-> 19, x20 |-> 20, x21 |-> 21, x22 |-> 22, x23 |-> 23, x24 |-> 24,
     x25 |-> 25, x26 |-> 26, x27 |-> 27, x28 |-> 28, x29 |-> 29, x30 |-> 30,
     x31 |-> 31]

\* The register number, or -1 where the code raises ValueError.
get_register_number(reg) ==
    IF reg.kind # "name" THEN -1
    ELSE IF reg.name \in DOMAIN REGISTERS THEN REGISTERS[reg.name]
    ELSE IF reg.name \in DOMAIN XREGS THEN XREGS[reg.name]
    ELSE -1

\* [ok, value]: ok is FALSE where the code raises ValueError.
check_immediate_bounds(imm, bits) ==
    IF imm.kind \notin {"dec", "hex"} \/ imm.digits = <<>>
    THEN [ok |-> FALSE, value |-> Zero]
    ELSE LET mag     == IF imm.kind = "hex" THEN ParseDigits(imm.digits, 16)
                        ELSE ParseDigits(imm.digits, 10)
             value   == IF imm.neg THEN Sub(Zero, mag) ELSE mag
             min_val == ToZ(-(2^(bits - 1)))
             max_val == ToZ(2^(bits - 1) - 1)
         IN  IF ~(Leq(min_val, value) /\ Leq(value, max_val))
             THEN [ok |-> FALSE, value |-> Zero]
             ELSE [ok |-> TRUE, value |-> value]

FUNCT3 ==
    [add |-> <<0,0,0>>, sub |-> <<0,0,0>>, sll |-> <<0,0,1>>, slt |-> <<0,1,0>>,
     sltu |-> <<0,1,1>>, xor |-> <<1,0,0>>, srl |-> <<1,0,1>>, sra |-> <<1,0,1>>,
     or |-> <<1,1,0>>, and |-> <<1,1,1>>, addi |-> <<0,0,0>>, slti |-> <<0,1,0>>,
     sltiu |-> <<0,1,1>>, xori |-> <<1,0,0>>, ori |-> <<1,1,0>>,
     andi |-> <<1,1,1>>, slli |-> <<0,0,1>>, srli |-> <<1,0,1>>,
     srai |-> <<1,0,1>>, lb |-> <<0,0,0>>, lh |-> <<0,0,1>>, lw |-> <<0,1,0>>,
     lbu |-> <<1,0,0>>, lhu |-> <<1,0,1>>, jalr |-> <<0,0,0>>, sb |-> <<0,0,0>>,
     sh |-> <<0,0,1>>, sw |-> <<0,1,0>>, beq |-> <<0,0,0>>, bne |-> <<0,0,1>>,
     blt |-> <<1,0,0>>, bge |-> <<1,0,1>>, bltu |-> <<1,1,0>>, bgeu |-> <<1,1,1>>]

FUNCT7 ==
    [add |-> <<0,0,0,0,0,0,0>>, sub |-> <<0,1,0,0,0,0,0>>,
     sll |-> <<0,0,0,0,0,0,0>>, slt |-> <<0,0,0,0,0,0,0>>,
     sltu |-> <<0,0,0,0,0,0,0>>, xor |-> <<0,0,0,0,0,0,0>>,
     srl |-> <<0,0,0,0,0,0,0>>, sra |-> <<0,1,0,0,0,0,0>>,
     or |-> <<0,0,0,0,0,0,0>>, and |-> <<0,0,0,0,0,0,0>>,
     slli |-> <<0,0,0,0,0,0,0>>, srli |-> <<0,0,0,0,0,0,0>>,
     srai |-> <<0,1,0,0,0,0,0>>]

OPCODES ==
    [rtype |-> <<0,1,1,0,0,1,1>>, itype |-> <<0,0,1,0,0,1,1>>,
     load |-> <<0,0,0,0,0,1,1>>, jalr |-> <<1,1,0,0,1,1,1>>,
     stype |-> <<0,1,0,0,0,1,1>>, btype |-> <<1,1,0,0,0,1,1>>,
     jal |-> <<1,1,0,1,1,1,1>>]

encode_r_type(opcode, rd, rs1, rs2) ==
    FUNCT7[opcode] \o Bin(rs2, 5) \o Bin(rs1, 5) \o FUNCT3[opcode]
        \o Bin(rd, 5) \o OPCODES.rtype

encode_i_type(opcode, rd, rs1, imm) ==
    LET imm_str == IF opcode \in {"slli", "srli", "srai"}
                   THEN FUNCT7[opcode] \o BinZ(And(imm, ToZ(31)), 5)
                   ELSE BinZ(And(imm, ToZ(4095)), 12)
        op == IF opcode \in {"lb", "lh", "lw", "lbu", "lhu"} THEN "load"
              ELSE IF opcode = "jalr" THEN "jalr" ELSE "itype"
    IN  imm_str \o Bin(rs1, 5) \o FUNCT3[opcode] \o Bin(rd, 5) \o OPCODES[op]

encode_s_type(opcode, rs2, rs1, imm0) ==
    LET imm == And(imm0, ToZ(4095))
    IN  BinZ(Shr(imm, 5), 7) \o Bin(rs2, 5) \o Bin(rs1, 5) \o FUNCT3[opcode]
            \o BinZ(And(imm, ToZ(31)), 5) \o OPCODES.stype

encode_b_type(opcode, rs1, rs2, imm0) ==
    LET imm == And(imm0, ToZ(8190))
    IN  BinZ(And(Shr(imm, 12), ToZ(1)), 1) \o BinZ(And(Shr(imm, 5), ToZ(63)), 6)
            \o Bin(rs2, 5) \o Bin(rs1, 5) \o FUNCT3[opcode]
            \o BinZ(And(Shr(imm, 1), ToZ(15)), 4)
            \o BinZ(And(Shr(imm, 11), ToZ(1)), 1) \o OPCODES.btype

encode_j_type(opcode, rd, imm0) ==
    LET imm == And(imm0, ToZ(2097150))
    IN  BinZ(And(Shr(imm, 20), ToZ(1)), 1)
            \o BinZ(And(Shr(imm, 1), ToZ(1023)), 10)
            \o BinZ(And(Shr(imm, 11), ToZ(1)), 1)
            \o BinZ(And(Shr(imm, 12), ToZ(255)), 8)
            \o Bin(rd, 5) \o OPCODES.jal

Failed == [ok |-> FALSE, word |-> <<>>]

Encoded(w) == [ok |-> TRUE, word |-> w]

\* The branch/jal immediate: the label's displacement, unchecked, when the
\* operand names a label; the bounds-checked literal otherwise.
LabelOrImmediate(tok, current_address, labels, bits) ==
    IF tok.kind = "name" /\ tok.name \in DOMAIN labels
    THEN [ok |-> TRUE, value |-> Sub(labels[tok.name], current_address)]
    ELSE check_immediate_bounds(tok, bits)

\* parts[1] is the mnemonic (Python's parts[0]); [ok, word], ok FALSE where
\* the code raises.  lui and auipc are neither decoded nor executed and are
\* left out.
encode_instruction(parts, current_address, labels) ==
    LET opcode == parts[1].name
        Reg(k) == IF k <= Len(parts) THEN get_register_number(parts[k]) ELSE -1
        Has(k) == k <= Len(parts)
    IN
    IF opcode \in {"add", "sub", "sll", "slt", "sltu", "xor", "srl", "sra", "or", "and"}
    THEN IF Reg(2) < 0 \/ Reg(3) < 0 \/ Reg(4) < 0 THEN Failed
         ELSE Encoded(encode_r_type(opcode, Reg(2), Reg(3), Reg(4)))
    ELSE IF opcode \in {"addi", "slti", "sltiu", "xori", "ori", "andi", "slli", "srli", "srai"}
    THEN IF Reg(2) < 0 \/ Reg(3) < 0 \/ ~Has(4) THEN Failed
         ELSE LET imm == check_immediate_bounds(parts[4], 12)
              IN  IF ~imm.ok THEN Failed
                  ELSE Encoded(encode_i_type(opcode, Reg(2), Reg(3), imm.value))
    ELSE IF opcode \in {"lb", "lh", "lw", "lbu", "lhu"}
    THEN IF Reg(2) < 0 \/ ~Has(3) \/ parts[3].kind # "mem" THEN Failed
         ELSE LET offset_str == DecTokOf(parts[3].neg, parts[3].digits)
                  base_reg   == NameTok(parts[3].name)
                  imm        == check_immediate_bounds(offset_str, 12)
                  rs1        == get_register_number(base_reg)
              IN  IF ~imm.ok \/ rs1 < 0 THEN Failed
                  ELSE Encoded(encode_i_type(opcode, Reg(2), rs1, imm.value))
    ELSE IF opcode \in {"sb", "sh", "sw"}
    THEN IF Reg(2) < 0 \/ ~Has(3) \/ parts[3].kind # "mem" THEN Failed
         ELSE LET offset_str == DecTokOf(parts[3].neg, parts[3].digits)
                  base_reg   == NameTok(parts[3].name)
                  imm        == check_immediate_bounds(offset_str, 12)
                  rs1        == get_register_number(base_reg)
              IN  IF ~imm.ok \/ rs1 < 0 THEN Failed
                  ELSE Encoded(encode_s_type(opcode, Reg(2), rs1, imm.value))
    ELSE IF opcode \in {"beq", "bne", "blt", "bge", "bltu", "bgeu"}
    THEN IF Reg(2) < 0 \/ Reg(3) < 0 \/ ~Has(4) THEN Failed
         ELSE LET imm == LabelOrImmediate(parts[4], current_address, labels, 13)
              IN  IF ~imm.ok THEN Failed
                  ELSE Encoded(encode_b_type(opcode, Reg(2), Reg(3), imm.value))
    ELSE IF opcode = "jal"
    THEN IF Reg(2) < 0 \/ ~Has(3) THEN Failed
         ELSE LET imm == LabelOrImmediate(parts[3], current_address, labels, 21)
              IN  IF ~imm.ok THEN Failed
                  ELSE Encoded(encode_j_type(opcode, Reg(2), imm.value))
    ELSE IF opcode = "jalr"
    THEN IF Reg(2) < 0 \/ Reg(3) < 0 \/ ~Has(4) THEN Failed
         ELSE LET imm == check_immediate_bounds(parts[4], 12)
              IN  IF ~imm.ok THEN Failed
                  ELSE Encoded(encode_i_type(opcode, Reg(2), Reg(3), imm.value))
    ELSE Failed

--------------------------------------------------------------------------
(* Simulator.py: decoder *)

\* Python's int(binary_instruction, 2).
ParseBin(bits) == ParseDigits(bits, 2)

\* (instr_int >> shift) & mask
Field(instr_int, shift, mask) == And(Shr(instr_int, shift), ToZ(mask))

\* if imm & sign: imm |= fill  else: imm &= keep
Extend(imm, sign, fill, keep) ==
    IF And(imm, sign) # Zero THEN Or(imm, fill) ELSE And(imm, keep)

\* 12-bit field: sign 0x800, fill 0xFFFFF000, keep 0xFFF.
Extend12(imm) == Extend(imm, ToZ(2048), <<Limb - 1, 61440>>, ToZ(4095))

Unknown(binary_instruction) ==
    [type |-> "unknown", op |-> "unknown", binary |-> binary_instruction]

decode_instruction(binary_instruction) ==
    LET instr_int == ParseBin(binary_instruction)
        opcode == Small(Field(instr_int, 0, 127))
        rd     == Small(Field(instr_int, 7, 31))
        funct3 == Small(Field(instr_int, 12, 7))
        rs1    == Small(Field(instr_int, 15, 31))
        rs2    == Small(Field(instr_int, 20, 31))
        funct7 == Small(Field(instr_int, 25, 127))
        R(name) == [type |-> "R", op |-> name, rd |-> rd, rs1 |-> rs1, rs2 |-> rs2]
    IN
    IF opcode = 51
    THEN IF funct3 = 0 /\ funct7 = 0 THEN R("add")
         ELSE IF funct3 = 0 /\ funct7 = 32 THEN R("sub")
         ELSE IF funct3 = 5 /\ funct7 = 0 THEN R("srl")
         ELSE IF funct3 = 7 /\ funct7 = 0 THEN R("and")
         ELSE IF funct3 = 6 /\ funct7 = 0 THEN R("or")
         ELSE IF funct3 = 2 /\ funct7 = 0 THEN R("slt")
         ELSE Unknown(binary_instruction)
    ELSE IF opcode = 19
    THEN LET imm == Extend12(Field(instr_int, 20, 4095))
         IN  IF funct3 = 0
             THEN [type |-> "I", op |-> "addi", rd |-> rd, rs1 |-> rs1, imm |-> imm]
             ELSE Unknown(binary_instruction)
    ELSE IF opcode = 3
    THEN LET imm == Extend12(Field(instr_int, 20, 4095))
         IN  IF funct3 = 2
             THEN [type |-> "I", op |-> "lw", rd |-> rd, rs1 |-> rs1, imm |-> imm]
             ELSE Unknown(binary_instruction)
    ELSE IF opcode = 35
    THEN LET imm_lo == Field(instr_int, 7, 31)
             imm_hi == Field(instr_int, 25, 127)
             imm    == Extend12(Or(Shl(imm_hi, 5), imm_lo))
         IN  IF funct3 = 2
             THEN [type |-> "S", op |-> "sw", rs1 |-> rs1, rs2 |-> rs2, imm |-> imm]
             ELSE Unknown(binary_instruction)
    ELSE IF opcode = 99
    THEN LET imm_11   == Field(instr_int, 7, 1)
             imm_4_1  == Field(instr_int, 8, 15)
             imm_10_5 == Field(instr_int, 25, 63)
             imm_12   == Field(instr_int, 31, 1)
             raw == Or(Or(Shl(imm_12, 12), Shl(imm_11, 11)),
                       Or(Shl(imm_10_5, 5), Shl(imm_4_1, 1)))
             imm == Extend(raw, ToZ(4096), <<Limb - 1, 57344>>, ToZ(8191))
             B(name) == [type |-> "B", op |-> name, rs1 |-> rs1, rs2 |-> rs2, imm |-> imm]
         IN  IF funct3 = 0 THEN B("beq")
             ELSE IF funct3 = 1 THEN B("bne")
             ELSE IF funct3 = 4 THEN B("blt")
             ELSE Unknown(binary_instruction)
    ELSE IF opcode = 111
    THEN LET imm_20    == Field(instr_int, 31, 1)
             imm_10_1  == Field(instr_int, 21, 1023)
             imm_11    == Field(instr_int, 20, 1)
             imm_19_12 == Field(instr_int, 12, 255)
             raw == Or(Or(Shl(imm_20, 20), Shl(imm_19_12, 12)),
                       Or(Shl(imm_11, 11), Shl(imm_10_1, 1)))
             imm == Extend(raw, ToZ(1048576), <<65520, 0>>, ToZ(1048575))
         IN  [type |-> "J", op |-> "jal", rd |-> rd, imm |-> imm]
    ELSE IF opcode = 103 /\ funct3 = 0
    THEN LET imm == Extend12(Field(instr_int, 20, 4095))
         IN  [type |-> "I", op |-> "jalr", rd |-> rd, rs1 |-> rs1, imm |-> imm]
    ELSE Unknown(binary_instruction)

--------------------------------------------------------------------------
(* Simulator.py: executors.  Each returns the new state it mutates and,    *)
(* where the code returns one, the next program counter.                   *)

execute_r_type(instr, values) ==
    LET op      == instr.op
        rd      == instr.rd
        rs1_val == values[instr.rs1]
        rs2_val == values[instr.rs2]
        result  ==
            IF op = "add" THEN Add(rs1_val, rs2_val)
            ELSE IF op = "sub" THEN Sub(rs1_val, rs2_val)
            ELSE IF op = "slt" THEN (IF Less(rs1_val, rs2_val) THEN ToZ(1) ELSE Zero)
            ELSE IF op = "srl"
                 THEN Shr(And(rs1_val, Mask32), Small(And(rs2_val, ToZ(31))))
            ELSE IF op = "or" THEN Or(rs1_val, rs2_val)
            ELSE IF op = "and" THEN And(rs1_val, rs2_val)
            ELSE Zero
    IN  write_register(values, rd, result)

\* [values, returned, next]: returned is FALSE where the code returns None.
execute_i_type(instr, values, memory, pc_now) ==
    LET op      == instr.op
        rd      == instr.rd
        rs1_val == values[instr.rs1]
    IN  IF op = "addi"
        THEN [values   |-> write_register(values, rd, Add(rs1_val, instr.imm)),
              returned |-> FALSE, next |-> Zero]
        ELSE IF op = "lw"
        THEN LET addr == Add(rs1_val, instr.imm)
             IN  [values   |-> write_register(values, rd, read_word_memory(memory, addr)),
                  returned |-> FALSE, next |-> Zero]
        ELSE IF op = "jalr"
        THEN LET target == And(Add(rs1_val, instr.imm), Not(ToZ(1)))
             IN  IF target = pc_now
                 THEN [values |-> values, returned |-> TRUE,
                       next |-> Add(pc_now, ToZ(4))]
                 ELSE [values   |-> write_register(values, rd, Add(pc_now, ToZ(4))),
                       returned |-> TRUE, next |-> target]
        ELSE [values |-> values, returned |-> FALSE, next |-> Zero]

execute_s_type(instr, values, memory) ==
    LET rs1_val == values[instr.rs1]
        rs2_val == values[instr.rs2]
        addr    == Add(rs1_val, instr.imm)
    IN  IF instr.op = "sw" THEN write_word_memory(memory, addr, rs2_val)
        ELSE memory

execute_b_type(instr, values, pc_now) ==
    LET op      == instr.op
        rs1_val == values[instr.rs1]
        rs2_val == values[instr.rs2]
        taken   == \/ op = "beq" /\ rs1_val = rs2_val
                   \/ op = "bne" /\ rs1_val # rs2_val
                   \/ op = "blt" /\ Less(rs1_val, rs2_val)
    IN  IF taken THEN Add(pc_now, instr.imm) ELSE Add(pc_now, ToZ(4))

\* [values, next]
execute_j_type(instr, values, pc_now) ==
    IF instr.op = "jal"
    THEN [values |-> write_register(values, instr.rd, Add(pc_now, ToZ(4))),
          next   |-> Add(pc_now, instr.imm)]
    ELSE [values |-> values, next |-> Add(pc_now, ToZ(4))]

--------------------------------------------------------------------------
(* Inputs *)

RECURSIVE DecDigits(_)
DecDigits(n) == IF n < 10 THEN <<n>> ELSE DecDigits(n \div 10) \o <<n % 10>>

\* The decimal literal of the integer n, e.g. "-2048".
DecTok(n) == DecTokOf(n < 0, DecDigits(IF n < 0 THEN -n ELSE n))

\* The memory operand "n(base)".
MemTok(n, base) == MemTokOf(n < 0, DecDigits(IF n < 0 THEN -n ELSE n), base)

RType(op, rd, rs1, rs2) == <<NameTok(op), NameTok(rd), NameTok(rs1), NameTok(rs2)>>

IType(op, rd, rs1, n) == <<NameTok(op), NameTok(rd), NameTok(rs1), DecTok(n)>>

MType(op, r, n, base) == <<NameTok(op), NameTok(r), MemTok(n, base)>>

\* The instructions the simulation draws from.
SimProgram ==
    { RType("add", "x3", "x1", "x3"), RType("add", "x0", "x2", "x2"),
      RType("sub", "x1", "x3", "x2"), RType("slt", "x3", "x1", "x2"),
      RType("srl", "x3", "x1", "x2"), RType("and", "x3", "x1", "x2"),
      RType("or", "x1", "x1", "x2"),
      IType("addi", "x3", "x0", 1), IType("addi", "x1", "x1", -4),
      IType("addi", "x0", "x2", 4),
      MType("lw", "x3", -4, "x2"), MType("lw", "x0", 8, "x2"),
      MType("sw", "x1", -4, "x2"), MType("sw", "x1", 8, "x2"),
      IType("beq", "x0", "x0", -8), IType("beq", "x1", "x0", 8),
      IType("bne", "x1", "x0", 8), IType("blt", "x1", "x2", 8),
      IType("blt", "x2", "x1", -4),
      <<NameTok("jal"), NameTok("x1"), DecTok(8)>>,
      <<NameTok("jal"), NameTok("x0"), DecTok(-8)>>,
      IType("jalr", "x3", "x1", -4), IType("jalr", "x1", "x0", 0),
      IType("jalr", "x1", "x1", 4), IType("jalr", "x0", "x2", 2) }

\* Values handed to write_register: 0x7FFFFFFF, 0x11223344, 0xFFFFFFFE, 4.
WriteValues == { <<32767, 65535>>, <<4386, 13124>>, <<65535, 65534>>, ToZ(4) }

WriteRegs == {0, 1}

MaxSteps == 3

--------------------------------------------------------------------------
(* The simulation: write_register calls and instructions assembled,        *)
(* decoded and executed at the current program counter.                    *)

\* The simulator: register file, program counter, memory, the decoded form
\* of each instruction it may be handed (program), the instruction last
\* assembled (asm) and executed (instr), and the number of steps taken.
VARIABLES values, pc, memory, program, asm, instr, steps

\* One encode_instruction / decode_instruction call: its arguments, the
\* encoder's result and the decoder's result.
VARIABLES cparts, caddr, clabels, cenc, cdec, cphase

\* One assemble_file run: the non-empty source lines, the label table, the
\* address counter, the line being processed, the words produced.
VARIABLES lines, labels, current_address, lineno, binary_instructions, aphase

simVars == <<values, pc, memory, program, asm, instr, steps>>

codecVars == <<cparts, caddr, clabels, cenc, cdec, cphase>>

asmVars == <<lines, labels, current_address, lineno, binary_instructions, aphase>>

vars == <<simVars, codecVars, asmVars>>

NoInstr == [type |-> "none", op |-> "none"]

\* The word assembled from each instruction of SimProgram, decoded.  No
\* operand names a label, so the word does not depend on the address it is
\* assembled at.
SimDecoded ==
    [parts \in SimProgram |->
        LET enc == encode_instruction(parts, Zero, <<>>)
        IN  IF enc.ok THEN decode_instruction(enc.word) ELSE NoInstr]

Reset == values = init_registers /\ pc = Zero

SimIdle ==
    /\ Reset
    /\ memory = init_memory
    /\ program = <<>>
    /\ asm = <<>>
    /\ instr = NoInstr
    /\ steps = 0

CodecIdle ==
    /\ cparts = <<>>
    /\ caddr = Zero
    /\ clabels = <<>>
    /\ cenc = Failed
    /\ cdec = NoInstr
    /\ cphase = "idle"

AsmIdle ==
    /\ lines = <<>>
    /\ labels = <<>>
    /\ current_address = Zero
    /\ lineno = 0
    /\ binary_instructions = <<>>
    /\ aphase = "idle"

Init ==
    /\ Reset
    /\ memory = init_memory
    /\ program = SimDecoded
    /\ asm = <<>>
    /\ instr = NoInstr
    /\ steps = 0
    /\ CodecIdle /\ AsmIdle

\* The decoded instruction the simulator is handed.
Fetch(parts) == program[parts]

\* The program counter after an instruction whose executor returns none:
\* it advances by 4.
NextSequential(pc_now) == Add(pc_now, ToZ(4))

WriteRegister(r, v) ==
    /\ steps < MaxSteps
    /\ values' = write_register(values, r, v)
    /\ instr' = [type |-> "W", op |-> "write_register", rd |-> r, value |-> v]
    /\ asm' = <<>>
    /\ steps' = steps + 1
    /\ UNCHANGED <<pc, memory, program, codecVars, asmVars>>

ExecR(parts) ==
    LET d == Fetch(parts)
    IN  /\ steps < MaxSteps
        /\ d.type = "R"
        /\ values' = execute_r_type(d, values)
        /\ pc' = NextSequential(pc)
        /\ instr' = d
        /\ asm' = parts
        /\ steps' = steps + 1
        /\ UNCHANGED <<memory, program, codecVars, asmVars>>

ExecI(parts) ==
    LET d == Fetch(parts)
        r == execute_i_type(d, values, memory, pc)
    IN  /\ steps < MaxSteps
        /\ d.type = "I"
        /\ values' = r.values
        /\ pc' = IF r.returned THEN r.next ELSE NextSequential(pc)
        /\ instr' = d
        /\ asm' = parts
        /\ steps' = steps + 1
        /\ UNCHANGED <<memory, program, codecVars, asmVars>>

ExecS(parts) ==
    LET d == Fetch(parts)
    IN  /\ steps < MaxSteps
        /\ d.type = "S"
        /\ memory' = execute_s_type(d, values, memory)
        /\ pc' = NextSequential(pc)
        /\ instr' = d
        /\ asm' = parts
        /\ steps' = steps + 1
        /\ UNCHANGED <<values, program, codecVars, asmVars>>

ExecB(parts) ==
    LET d == Fetch(parts)
    IN  /\ steps < MaxSteps
        /\ d.type = "B"
        /\ pc' = execute_b_type(d, values, pc)
        /\ instr' = d
        /\ asm' = parts
        /\ steps' = steps + 1
        /\ UNCHANGED <<values, memory, program, codecVars, asmVars>>

ExecJ(parts) ==
    LET d == Fetch(parts)
        r == execute_j_type(d, values, pc)
    IN  /\ steps < MaxSteps
        /\ d.type = "J"
        /\ values' = r.values
        /\ pc' = r.next
        /\ instr' = d
        /\ asm' = parts
        /\ steps' = steps + 1
        /\ UNCHANGED <<memory, program, codecVars, asmVars>>

Next ==
    \/ \E r \in WriteRegs, v \in WriteValues : WriteRegister(r, v)
    \/ \E parts \in SimProgram : ExecR(parts)
    \/ \E parts \in SimProgram : ExecI(parts)
    \/ \E parts \in SimProgram : ExecS(parts)
    \/ \E parts \in SimProgram : ExecB(parts)
    \/ \E parts \in SimProgram : ExecJ(parts)

Spec == Init /\ [][Next]_vars

--------------------------------------------------------------------------
(* One call of the encoder followed by the decoder on its word. *)

RegNames == (DOMAIN XREGS) \cup (DOMAIN REGISTERS)

\* Each register operand in turn ranges over every register name, and over
\* one name that is no register.
RegTriples ==
    UNION { { <<r, "x1", "x2">>, <<"x1", r, "x2">>, <<"x31", "t6", r>> } :
            r \in RegNames \cup {"x32"} }

RegPairs ==
    UNION { { <<r, "x31">>, <<"x1", r>> } : r \in RegNames \cup {"x32"} }

FewPairs == { <<"x0", "x0">>, <<"x1", "x2">>, <<"x31", "a0">> }

\* Literals at and around the ends of the signed 12-, 13- and 21-bit ranges.
Imm12 == { DecTok(n) : n \in {-2049, -2048, -4, -1, 0, 1, 8, 2047, 2048} }
            \cup { HexTokOf(<<7, 15, 15>>), HexTokOf(<<8, 0, 0>>) }

Imm13 == { DecTok(n) : n \in {-4097, -4096, -8, -2, 0, 2, 8, 4094, 4095, 4096} }
            \cup { HexTokOf(<<15, 15, 14>>), NameTok("near"), NameTok("far"),
                   NameTok("start"), NameTok("missing") }

Imm21 == { DecTok(n) : n \in {-1048577, -1048576, -8, 0, 2, 8, 1048574,
                                1048575, 1048576} }
            \cup { NameTok("near"), NameTok("far"), NameTok("start"),
                   NameTok("beyond") }

CodecInputs ==
    { RType(op, t[1], t[2], t[3]) :
        op \in {"add", "sub", "srl", "and", "or", "slt", "xor", "sra"},
        t \in RegTriples }
    \cup { <<NameTok(op), NameTok(t[1]), NameTok(t[2]), i>> :
        op \in {"addi", "jalr", "slli"}, t \in RegPairs, i \in {DecTok(-2048), DecTok(2047)} }
    \cup { <<NameTok(op), NameTok(t[1]), NameTok(t[2]), i>> :
        op \in {"addi", "jalr", "andi"}, t \in FewPairs, i \in Imm12 }
    \cup { <<NameTok(op), NameTok(t[1]), MemTokOf(i.neg, i.digits, t[2])>> :
        op \in {"lw", "sw"}, t \in RegPairs, i \in {DecTok(-2048), DecTok(2047)} }
    \cup { <<NameTok(op), NameTok(t[1]), MemTokOf(i.neg, i.digits, t[2])>> :
        op \in {"lw", "sw", "lb", "sb"}, t \in FewPairs,
        i \in { j \in Imm12 : j.kind = "dec" } }
    \cup { <<NameTok(op), NameTok(t[1]), NameTok(t[2]), i>> :
        op \in {"beq", "bne", "blt", "bge"}, t \in FewPairs, i \in Imm13 }
    \cup { <<NameTok("jal"), NameTok(r), i>> :
        r \in {"x0", "ra", "x31"}, i \in Imm21 }
    \cup { <<NameTok("mul"), NameTok("x1"), NameTok("x2"), NameTok("x3")>>,
           <<NameTok("add"), NameTok("x1"), NameTok("x2")>> }

\* The label table handed to the encoder: addresses 0, 24, 8192 and 2^20.
CodecLabels ==
    [start |-> Zero, near |-> ToZ(24), far |-> ToZ(8192), beyond |-> ToZ(2^20)]

CodecAddresses == { Zero, ToZ(16) }

CodecInit ==
    /\ cparts \in CodecInputs
    /\ caddr \in CodecAddresses
    /\ clabels = CodecLabels
    /\ cenc = Failed
    /\ cdec = NoInstr
    /\ cphase = "input"
    /\ SimIdle /\ AsmIdle

Encode ==
    /\ cphase = "input"
    /\ cenc' = encode_instruction(cparts, caddr, clabels)
    /\ cphase' = "encoded"
    /\ UNCHANGED <<cparts, caddr, clabels, cdec, simVars, asmVars>>

Decode ==
    /\ cphase = "encoded"
    /\ cenc.ok
    /\ cdec' = decode_instruction(cenc.word)
    /\ cphase' = "decoded"
    /\ UNCHANGED <<cparts, caddr, clabels, cenc, simVars, asmVars>>

CodecNext == Encode \/ Decode

SpecCodec == CodecInit /\ [][CodecNext]_vars

--------------------------------------------------------------------------
(* assemble_file.  A source line is a record: its label ("" when the line  *)
(* has no colon) and the tokens after the label (<<>> for a label alone).  *)

Line(l, p) == [label |-> l, parts |-> p]

AsmLines ==
    { Line("", IType("addi", "x1", "x1", 1)),
      Line("loop", IType("addi", "x1", "x1", 1)),
      Line("loop", <<>>),
      Line("end", <<>>),
      Line("end", RType("add", "x3", "x1", "x2")),
      Line("", <<NameTok("beq"), NameTok("x0"), NameTok("x0"), NameTok("loop")>>),
      Line("", <<NameTok("blt"), NameTok("x1"), NameTok("x2"), NameTok("end")>>),
      Line("", <<NameTok("jal"), NameTok("x0"), NameTok("loop")>>) }

MaxLines == 4

Programs == UNION { [1..n -> AsmLines] : n \in 1..MaxLines }

AsmInit ==
    /\ lines \in Programs
    /\ labels = <<>>
    /\ current_address = Zero
    /\ lineno = 1
    /\ binary_instructions = <<>>
    /\ aphase = "pass1"
    /\ SimIdle /\ CodecIdle

\* labels[name] = address
SetLabel(table, name, address) ==
    [n \in (DOMAIN table) \cup {name} |-> IF n = name THEN address ELSE table[n]]

\* First loop: one line.
Pass1Line ==
    /\ aphase = "pass1"
    /\ lineno <= Len(lines)
    /\ labels' = IF lines[lineno].label # ""
                 THEN SetLabel(labels, lines[lineno].label, current_address)
                 ELSE labels
    /\ current_address' = Add(current_address, ToZ(4))
    /\ lineno' = lineno + 1
    /\ UNCHANGED <<lines, binary_instructions, aphase, simVars, codecVars>>

\* binary_instructions, current_address = [], 0
StartPass2 ==
    /\ aphase = "pass1"
    /\ lineno > Len(lines)
    /\ binary_instructions' = <<>>
    /\ current_address' = Zero
    /\ lineno' = 1
    /\ aphase' = "pass2"
    /\ UNCHANGED <<lines, labels, simVars, codecVars>>

\* Second loop: a line that is a label alone is skipped.
Pass2LabelOnly ==
    /\ aphase = "pass2"
    /\ lineno <= Len(lines)
    /\ lines[lineno].label # ""
    /\ lines[lineno].parts = <<>>
    /\ lineno' = lineno + 1
    /\ UNCHANGED <<lines, labels, current_address, binary_instructions, aphase,
                   simVars, codecVars>>

\* Second loop: a line with an instruction is encoded and appended.
Pass2Encode ==
    /\ aphase = "pass2"
    /\ lineno <= Len(lines)
    /\ lines[lineno].parts # <<>>
    /\ LET binary == encode_instruction(lines[lineno].parts, current_address, labels)
       IN  /\ binary.ok
           /\ binary_instructions' = Append(binary_instructions, binary.word)
    /\ current_address' = Add(current_address, ToZ(4))
    /\ lineno' = lineno + 1
    /\ UNCHANGED <<lines, labels, aphase, simVars, codecVars>>

\* Second loop: encode_instruction raises and the run ends without output.
Pass2Error ==
    /\ aphase = "pass2"
    /\ lineno <= Len(lines)
    /\ lines[lineno].parts # <<>>
    /\ ~encode_instruction(lines[lineno].parts, current_address, labels).ok
    /\ aphase' = "error"
    /\ UNCHANGED <<lines, labels, current_address, lineno, binary_instructions,
                   simVars, codecVars>>

\* The words are written out.
Finish ==
    /\ aphase = "pass2"
    /\ lineno > Len(lines)
    /\ aphase' = "done"
    /\ UNCHANGED <<lines, labels, current_address, lineno, binary_instructions,
                   simVars, codecVars>>

AsmNext ==
    \/ Pass1Line
    \/ StartPass2
    \/ Pass2LabelOnly
    \/ Pass2Encode
    \/ Pass2Error
    \/ Finish

SpecAsm == AsmInit /\ [][AsmNext]_vars

--------------------------------------------------------------------------
(* Properties of the simulation *)

\* The signed value a decimal literal token or memory operand denotes.
LitValue(tok) ==
    LET mag == ParseDigits(tok.digits, IF tok.kind = "hex" THEN 16 ELSE 10)
    IN  IF tok.neg THEN Sub(Zero, mag) ELSE mag

\* v reduced modulo 2^32 into [-2^31, 2^31 - 1].
Signed32(v) == <<((v[1] + 2^15) % Limb) - 2^15, v[2]>>

InSigned32(v) == -(2^15) <= v[1] /\ v[1] < 2^15 /\ 0 <= v[2] /\ v[2] < Limb

HasRd(i) == i.type \in {"W", "R", "I", "J"}

\* Register 0 holds 0 and reads as 0.
RegisterZeroHolds == values[0] = Zero /\ read_register(values, 0) = Zero

\* A write_register call or an instruction whose rd is 0 changes no register.
WriteToZeroIsNoOp == HasRd(instr') /\ instr'.rd = 0 => values' = values

\* C5: from init_registers, after any sequence of write_register calls and
\* executed instructions, register 0 holds 0 and read_register(0) returns 0,
\* and a write to register 0 (a call, or an instruction with rd = 0) changes
\* no register.
C5_RegisterZero ==
    RegisterZeroHolds /\ [][RegisterZeroHolds' /\ WriteToZeroIsNoOp]_vars

\* An add with rd = 0 and a non-zero sum has been executed.
C5_Witness ==
    /\ instr.type = "R" /\ instr.op = "add" /\ instr.rd = 0
    /\ Add(values[instr.rs1], values[instr.rs2]) # Zero

AllRegistersSigned32 == \A i \in 0..31 : InSigned32(values[i])

\* The value written is the exact result reduced modulo 2^32, signed.
WrittenValueWraps ==
    /\ instr'.type = "W" /\ instr'.rd # 0
         => values'[instr'.rd] = Signed32(instr'.value)
    /\ instr'.type = "R" /\ instr'.rd # 0 /\ instr'.op = "add"
         => values'[instr'.rd] = Signed32(Add(values[instr'.rs1], values[instr'.rs2]))
    /\ instr'.type = "R" /\ instr'.rd # 0 /\ instr'.op = "sub"
         => values'[instr'.rd] = Signed32(Sub(values[instr'.rs1], values[instr'.rs2]))
    /\ instr'.type = "R" /\ instr'.rd # 0 /\ instr'.op = "slt"
         => values'[instr'.rd] =
              (IF Less(values[instr'.rs1], values[instr'.rs2]) THEN ToZ(1) ELSE Zero)
    /\ instr'.type = "R" /\ instr'.rd # 0 /\ instr'.op = "and"
         => values'[instr'.rd] = Signed32(And(values[instr'.rs1], values[instr'.rs2]))
    /\ instr'.type = "R" /\ instr'.rd # 0 /\ instr'.op = "or"
         => values'[instr'.rd] = Signed32(Or(values[instr'.rs1], values[instr'.rs2]))
    /\ instr'.type = "R" /\ instr'.rd # 0 /\ instr'.op = "srl"
         => values'[instr'.rd] =
              Signed32(Shr(<<values[instr'.rs1][1] % Limb, values[instr'.rs1][2]>>,
                           values[instr'.rs2][2] % 32))
    /\ instr'.type = "I" /\ instr'.rd # 0 /\ instr'.op = "addi"
         => values'[instr'.rd] = Signed32(Add(values[instr'.rs1], LitValue(asm'[4])))
    /\ instr'.type = "I" /\ instr'.rd # 0 /\ instr'.op = "lw"
         => values'[instr'.rd] =
              Signed32(read_word_memory(memory, Add(values[instr'.rs1], instr'.imm)))
    /\ instr'.type = "I" /\ instr'.op = "jalr" /\ values' # values
         => values'[instr'.rd] = Signed32(Add(pc, ToZ(4)))
    /\ instr'.type = "J" /\ instr'.rd # 0
         => values'[instr'.rd] = Signed32(Add(pc, ToZ(4)))

\* C6: from init_registers, after any sequence of writes and executed
\* instructions every register holds a value in [-2^31, 2^31 - 1], and each
\* written value is the exact result reduced modulo 2^32 and read as signed
\* two's complement (0x7FFFFFFF + 1 leaves -2147483648).
C6_Wraparound ==
    AllRegistersSigned32 /\ [][AllRegistersSigned32' /\ WrittenValueWraps]_vars

\* add x3, x1, x3 has been executed with x1 = 0x7FFFFFFF and left -2^31.
C6_Witness ==
    /\ instr.type = "R" /\ instr.op = "add"
    /\ instr.rd = 3 /\ instr.rs1 = 1 /\ instr.rs2 = 3
    /\ values[1] = <<2^15 - 1, Limb - 1>>
    /\ values[3] = <<-(2^15), 0>>

\* The branch condition of the assembled mnemonic on the signed values.
BranchHolds(op, a, b) ==
    \/ op = "beq" /\ a = b
    \/ op = "bne" /\ a # b
    \/ op = "blt" /\ Less(a, b)

\* C3: a beq/bne/blt assembled at address A with a displacement d that is a
\* multiple of 4, forward or backward, executed at PC = A, yields next
\* PC = A + d when its condition holds on the signed register values and
\* A + 4 otherwise.
C3_BranchNextPc ==
    [][instr'.type = "B" /\ LitValue(asm'[4])[2] % 4 = 0 =>
         pc' = IF BranchHolds(asm'[1].name, values[instr'.rs1], values[instr'.rs2])
               THEN Add(pc, LitValue(asm'[4]))
               ELSE Add(pc, ToZ(4))]_vars

\* Byte k (0 = least significant) of the 32-bit pattern of v.
ByteOf(v, k) == <<0, IF k < 2 THEN (v[2] \div (256^k)) % 256
                     ELSE ((v[1] % Limb) \div (256^(k - 2))) % 256>>

\* C7: a decoded sw with base value b and signed offset imm stores rs2's
\* 32-bit pattern at A = b + imm so that byte reads at A .. A+3 return the
\* least to the most significant byte.
C7_StoreLittleEndian ==
    [][instr'.type = "S" =>
         LET A == Add(values[instr'.rs1], LitValue(asm'[3]))
         IN  \A k \in 0..3 :
                read_byte_memory(memory', Add(A, ToZ(k)))
                    = ByteOf(values[instr'.rs2], k)]_vars

\* C9: the program counter is an unsigned 32-bit value and a multiple of 4.
C9_PcAligned32 == 0 <= pc[1] /\ pc[1] < Limb /\ pc[2] % 4 = 0

\* C10: a decoded jalr at PC p with t = (rs1 + signed imm) with bit 0
\* cleared returns p + 4 and changes no register when t = p; otherwise it
\* writes p + 4 into rd (discarded for rd = 0) and returns t.
C10_JalrPolicy ==
    [][instr'.type = "I" /\ instr'.op = "jalr" =>
         LET sum == Add(values[instr'.rs1], LitValue(asm'[4]))
             t   == <<sum[1], sum[2] - (sum[2] % 2)>>
         IN  IF t = pc
             THEN pc' = Add(pc, ToZ(4)) /\ values' = values
             ELSE /\ pc' = t
                  /\ values' = IF instr'.rd = 0 THEN values
                               ELSE [values EXCEPT ![instr'.rd] = Signed32(Add(pc, ToZ(4)))]]_vars

--------------------------------------------------------------------------
(* Properties of the encoder and the decoder *)

Mnemonic == cparts[1].name

RTypeOps == {"add", "sub", "srl", "and", "or", "slt"}

\* The mnemonics both the encoder and the decoder support.
Supported == RTypeOps \cup {"addi", "lw", "jalr", "sw", "beq", "bne", "blt", "jal"}

\* The width of the immediate field a mnemonic encodes (0: none).
FieldBits(op) ==
    IF op \in {"beq", "bne", "blt", "bge", "bltu", "bgeu"} THEN 13
    ELSE IF op = "jal" THEN 21
    ELSE IF op \in {"addi", "slti", "sltiu", "xori", "ori", "andi", "slli",
                    "srli", "srai", "lb", "lh", "lw", "lbu", "lhu", "sb", "sh",
                    "sw", "jalr"} THEN 12
    ELSE 0

\* The operand that carries the immediate.
ImmOperand ==
    IF Mnemonic \in {"lw", "sw", "lb", "sb", "jal"} THEN cparts[3] ELSE cparts[4]

\* The signed immediate the call was asked to encode: a literal's value,
\* or label_address - current_address.
AskedImm ==
    IF ImmOperand.kind = "name" THEN Sub(clabels[ImmOperand.name], caddr)
    ELSE LitValue(ImmOperand)

FitsSigned(v, bits) ==
    Leq(ToZ(-(2^(bits - 1))), v) /\ Leq(v, ToZ(2^(bits - 1) - 1))

\* C1: for every supported mnemonic, register index and immediate in range
\* for its field, decoding the encoded word yields the same operation, the
\* same register indices and the same signed immediate.
C1_RoundTrip ==
    cphase = "decoded" /\ Mnemonic \in Supported
      /\ (FieldBits(Mnemonic) > 0 => FitsSigned(AskedImm, FieldBits(Mnemonic)))
    => /\ cdec.op = Mnemonic
       /\ Mnemonic \in RTypeOps =>
            /\ cdec.rd = get_register_number(cparts[2])
            /\ cdec.rs1 = get_register_number(cparts[3])
            /\ cdec.rs2 = get_register_number(cparts[4])
       /\ Mnemonic \in {"addi", "jalr"} =>
            /\ cdec.rd = get_register_number(cparts[2])
            /\ cdec.rs1 = get_register_number(cparts[3])
       /\ Mnemonic = "lw" =>
            /\ cdec.rd = get_register_number(cparts[2])
            /\ cdec.rs1 = get_register_number(NameTok(cparts[3].name))
       /\ Mnemonic = "sw" =>
            /\ cdec.rs2 = get_register_number(cparts[2])
            /\ cdec.rs1 = get_register_number(NameTok(cparts[3].name))
       /\ Mnemonic \in {"beq", "bne", "blt"} =>
            /\ cdec.rs1 = get_register_number(cparts[2])
            /\ cdec.rs2 = get_register_number(cparts[3])
       /\ Mnemonic = "jal" => cdec.rd = get_register_number(cparts[2])
       /\ FieldBits(Mnemonic) > 0 => cdec.imm = AskedImm

\* C2: the immediate of a decoded I-, S-, B- or J-type instruction is the
\* signed value of its field: within [-2048, 2047] for I/S, [-4096, 4094]
\* for B, [-1048576, 1048574] for J; the I-type field 0x800 decodes to
\* -2048 and 0x7FF to 2047.
C2_SignExtension ==
    cphase = "decoded" =>
       /\ cdec.type \in {"I", "S"} => FitsSigned(cdec.imm, 12)
       /\ cdec.type = "B" => FitsSigned(cdec.imm, 13) /\ cdec.imm[2] % 2 = 0
       /\ cdec.type = "J" => FitsSigned(cdec.imm, 21) /\ cdec.imm[2] % 2 = 0
       /\ cdec.type = "I" /\ SubSeq(cenc.word, 1, 12) = Bin(2048, 12)
            => cdec.imm = ToZ(-2048)
       /\ cdec.type = "I" /\ SubSeq(cenc.word, 1, 12) = Bin(2047, 12)
            => cdec.imm = ToZ(2047)

\* C8: encode_instruction returns a word for an I-, S-, B- or J-type
\* mnemonic only if the immediate it was asked to encode, a literal or
\* label_address - current_address, lies in the signed range of the field.
C8_RangeEnforced ==
    cphase # "input" /\ cenc.ok /\ FieldBits(Mnemonic) > 0
    => FitsSigned(AskedImm, FieldBits(Mnemonic))

--------------------------------------------------------------------------
(* Properties of assemble_file *)

\* The number of instructions before line i: the position, in the output
\* word sequence, of the instruction at line i or of the instruction the
\* label-only line i annotates.
OutPos(i) == Cardinality({ j \in 1..(i - 1) : lines[j].parts # <<>> })

LabelNames == { lines[i].label : i \in 1..Len(lines) } \ {""}

DefinedOnce ==
    \A i, j \in 1..Len(lines) :
        lines[i].label # "" /\ lines[i].label = lines[j].label => i = j

\* Every label is followed, on its line or a later one, by an instruction.
LabelsAnnotate ==
    \A i \in 1..Len(lines) :
        lines[i].label # "" => \E j \in i..Len(lines) : lines[j].parts # <<>>

\* Each label bound to 4 x the output position of the instruction it annotates.
AnnotatedAddresses ==
    [n \in LabelNames |->
        ToZ(4 * OutPos(CHOOSE i \in 1..Len(lines) : lines[i].label = n))]

RefersToLabel(parts) ==
    \/ parts[1].name \in {"beq", "bne", "blt"} /\ parts[4].name \in LabelNames
    \/ parts[1].name = "jal" /\ parts[3].name \in LabelNames

\* C4: after assemble_file, each label is bound to the byte address
\* (4 x position in the output word sequence) of the instruction it
\* annotates, and every branch or jal naming a label is encoded with
\* displacement = that address minus the branch's own output address.
C4_LabelResolution ==
    aphase = "done" /\ DefinedOnce /\ LabelsAnnotate =>
       /\ labels = AnnotatedAddresses
       /\ \A k \in 1..Len(lines) :
             lines[k].parts # <<>> /\ RefersToLabel(lines[k].parts) =>
                binary_instructions[OutPos(k) + 1] =
                    encode_instruction(lines[k].parts, ToZ(4 * OutPos(k)),
                                       AnnotatedAddresses).word
==========================================================================
